---- MODULE Spec2Model ----
(***************************************************************************)
(* Activity monitor (ZebdaYacine/Idle).                                    *)
(*                                                                         *)
(* Two programs share most of their code:                                  *)
(*   - the window tracker   (src/unnamed/part_001): sliding window of      *)
(*     activity samples, modeFrom, MODE CHANGE / STATUS lines;             *)
(*   - the hourly monitor   (src/monitor/main.go): hourly counters,        *)
(*     rollover, insertHourly into rqlite.                                 *)
(* Both are one select loop over ctx.Done, flushTicker.C and ticker.C.     *)
(*                                                                         *)
(* Modelled on their own, with their own specifications:                   *)
(*   - RotatingLogger, the day-rotating log writer both programs use       *)
(*     (SpecLogger): its callers, its handle, the files of the directory;  *)
(*   - rqliteExec, the POST to rqlite and the checks of the reply          *)
(*     (SpecExec);                                                         *)
(*   - the tracker's loop with ticker.C as a channel, under fairness of    *)
(*     the cancellation case (SpecStop);                                   *)
(*   - the tracker with a window of 10 s and a threshold of 2 s, ten ticks *)
(*     one second apart (SpecScenario);                                    *)
(*   - getIdleDuration, the 32-bit tick arithmetic (SpecIdle);             *)
(*   - the monitor's loop from a bucket of any size (SpecSeal, SpecHour);  *)
(*   - GET /activity/today of the detector backend                         *)
(*     (src/detector/backend/handler_activity.go) and parseHHMM            *)
(*     (SpecParse).                                                        *)
(* In Spec and SpecMonitor the writer is the lines handed to writeLine.    *)
(*                                                                         *)
(* Durations and instants are in whole seconds.  A time.Time is a record   *)
(* [wall, mono, hasMono]: Go's time.Now() and the ticker's values carry a  *)
(* wall-clock reading and a monotonic reading; Before/After/Sub compare    *)
(* the monotonic readings when both operands have one, Add keeps the       *)
(* monotonic reading, Truncate and the zero value have none, Format and    *)
(* IsZero read the wall clock.                                             *)
(*                                                                         *)
(* float64 values are modelled exactly as rationals: a ratio is a pair     *)
(* <<numerator, denominator>>; activityPct is such a pair as well.         *)
(* For the integer second counts the programs produce, the float64         *)
(* comparisons of the source agree with the exact ones (the quotients      *)
(* differ from every threshold by far more than a rounding error unless    *)
(* they hit it exactly, and then the float64 value is exact as well).      *)
(***************************************************************************)
EXTENDS Integers, Sequences, FiniteSets, TLC

VARIABLES
  pc,               \* position of main: "startup", "select", "poll", "cursor", "exited"
  clock,            \* the machine's clock: what time.Now() returns
  now,              \* the value received from ticker.C by the tick being handled
  ticks,            \* number of values received from ticker.C so far
  adjustments,      \* number of wall-clock adjustments so far
  cancelled,        \* ctx.Done() is closed
  lines,            \* the lines handed to writeLine by the latest step of main
  unsynced,         \* a line was written since the last rot.Sync()/Close()
  lastMouse,        \* lastMouse
  lastMousePrint,   \* lastMousePrint
  idleNow,          \* result of the latest getIdleDuration()
  idleErr,          \* whether the latest getIdleDuration() failed
  tickC,            \* ticker.C, a channel of capacity 1: <<>> or <<t>>
  startErr,         \* what made main return before its loop: "", "logger" or "cursor"
  conf,             \* cfg: the window, the thresholds and the ratios of the tracker
  \* window tracker
  samples,          \* samples []sample
  pushed,           \* history: every sample ever written to samples
  lastMode,         \* lastMode ("" before the first MODE CHANGE)
  lastStatusPrint,  \* lastStatusPrint
  activeRatio,      \* activeRatio of the latest tick that sampled
  mode,             \* mode of the latest tick that sampled
  sampled,          \* the latest tick reached the scoring code
  \* hourly monitor
  hourStart,        \* hourStart
  idleSecondsInHour,\* idleSecondsInHour
  samplesInHour,    \* samplesInHour
  lastMouseMoveAt,  \* lastMouseMoveAt
  rolled,           \* the tick being handled took the rollover branch
  upserts,          \* history: every insertHourly call, with its outcome
  \* rqliteExec
  resp,             \* <<>> or <<r>>: what the call of rqliteExec meets (request, reply)
  execErr,          \* the error rqliteExec returned; "" is nil
  \* RotatingLogger and the goroutines calling it
  day,              \* the calendar date of time.Now()
  alive,            \* NewRotatingLogger has returned a *RotatingLogger in this run
  curDate,          \* r.curDate: <<>> is "", <<d>> a date
  file,             \* r.file: <<>> is nil, <<h>> a handle
  logger,           \* r.logger: <<>> is nil, <<h>> a log.Logger writing to h
  handles,          \* the file handles the process holds open
  nextId,           \* identity of the next handle os.OpenFile returns
  files,            \* the log directory: per date, whether the file exists and its lines
  written,         \* history: the lines Println was called with, as it reached its write
  nLines,           \* number of Println calls begun
  restarts,         \* number of times the process ended after a logger was made
  mu,               \* r.mu: the callers that hold it
  th,               \* per caller: the method it is in and its position there
  staleUse,         \* history: a call used a handle that was no longer open
  \* getIdleDuration
  tickIn,           \* <<>> or <<[now, last]>>: GetTickCount64() and lii.DwTime of one call
  idleMillis,       \* idleMillis of that call, a uint64
  \* parseHHMM and GetToday (detector backend)
  req,              \* <<>> or <<[start, end]>>: the query strings of one request, as bytes
  reply             \* <<>> or <<r>>: the results of parseHHMM and the status answered

vars == <<pc, clock, now, ticks, adjustments, cancelled, lines, unsynced,
          lastMouse, lastMousePrint, idleNow, idleErr, tickC, startErr, conf,
          samples, pushed, lastMode, lastStatusPrint, activeRatio, mode, sampled,
          hourStart, idleSecondsInHour, samplesInHour, lastMouseMoveAt, rolled,
          upserts, resp, execErr,
          day, alive, curDate, file, logger, handles, nextId, files, written, nLines,
          restarts, mu, th, staleUse, tickIn, idleMillis, req, reply>>

\* the variables of main and of its environment
mainVars == <<pc, clock, now, ticks, adjustments, cancelled, lines, unsynced,
              lastMouse, lastMousePrint, idleNow, idleErr, tickC, startErr, conf,
              samples, pushed, lastMode, lastStatusPrint, activeRatio, mode, sampled,
              hourStart, idleSecondsInHour, samplesInHour, lastMouseMoveAt, rolled,
              upserts>>

execVars == <<resp, execErr>>

loggerVars == <<day, alive, curDate, file, logger, handles, nextId, files, written,
                nLines, restarts, mu, th, staleUse>>

idleVars == <<tickIn, idleMillis>>

parseVars == <<req, reply>>

\* the variables of the parts of the programs that are modelled on their own
partVars == <<execVars, loggerVars, idleVars, parseVars>>

trackerVars == <<samples, pushed, lastMode, lastStatusPrint, activeRatio, mode, sampled>>

monitorVars == <<hourStart, idleSecondsInHour, samplesInHour, lastMouseMoveAt, rolled,
                 upserts>>

----------------------------------------------------------------------------
\* Bounds of the model

\* ticker values received in one run of the window tracker
MaxTicks == 3

\* ticker values received in one run of the hourly monitor
MaxHourTicks == 2

\* wall-clock adjustments in one run
MaxAdjust == 1

\* ticks of the end-to-end scenario of the window tracker
MaxScenarioTicks == 10

\* values the ticker sends in one run of the window tracker, where the sending
\* and the receiving are separate steps
MaxStopTicks == 2

\* Println calls on the log writer, over all runs
MaxLines == 2

\* restarts of the process that owns the log writer
MaxRestarts == 1

----------------------------------------------------------------------------
\* Configuration (cfg := Config{...}), in seconds

SampleEvery == 1

WindowSize == 1800

ActiveIfIdleLessThan == 30

ContinuousIdleThreshold == 1800

PrintStatusEvery == 30

PrintMouseMoveEvery == 0

\* 0.60 and 0.30
HighProductiveRatio == <<3, 5>>

SimpleProductiveRatio == <<3, 10>>

Hour == 3600

cfg ==
  [ WindowSize              |-> WindowSize,
    ActiveIfIdleLessThan    |-> ActiveIfIdleLessThan,
    ContinuousIdleThreshold |-> ContinuousIdleThreshold,
    HighProductiveRatio     |-> HighProductiveRatio,
    SimpleProductiveRatio   |-> SimpleProductiveRatio ]

ModeHighProductive == "HIGH_PRODUCTIVE"

ModeSimpleProductive == "SIMPLE_PRODUCTIVE"

ModeIdle == "IDLE"

----------------------------------------------------------------------------
\* time.Time

ZeroTime == [wall |-> 0, mono |-> 0, hasMono |-> FALSE]

IsZero(t) == t.wall = 0

Before(t, u) ==
  IF t.hasMono /\ u.hasMono THEN t.mono < u.mono ELSE t.wall < u.wall

After(t, u) ==
  IF t.hasMono /\ u.hasMono THEN t.mono > u.mono ELSE t.wall > u.wall

Add(t, d) ==
  [wall |-> t.wall + d, mono |-> IF t.hasMono THEN t.mono + d ELSE 0, hasMono |-> t.hasMono]

Sub(t, u) ==
  IF t.hasMono /\ u.hasMono THEN t.mono - u.mono ELSE t.wall - u.wall

Truncate(t, d) == [wall |-> t.wall - (t.wall % d), mono |-> 0, hasMono |-> FALSE]

----------------------------------------------------------------------------
\* Inputs from the environment

\* time between two values received from ticker.C (a slow receiver drops ticks)
TickGaps == {SampleEvery, WindowSize}

\* steps of the wall clock when it is adjusted (set back)
ClockSteps == {0 - Hour}

Points == {<<0, 0>>, <<1, 0>>}

\* getMousePos(): (POINT, error)
CursorResults ==
  {[err |-> TRUE, p |-> <<0, 0>>]} \cup {[err |-> FALSE, p |-> q] : q \in Points}

\* getIdleDuration(): (time.Duration, error)
IdleDurations == {0, ActiveIfIdleLessThan, ContinuousIdleThreshold}

IdleResults ==
  {[err |-> TRUE, d |-> 0]} \cup {[err |-> FALSE, d |-> d] : d \in IdleDurations}

StartClock == [wall |-> 3 * Hour - 1, mono |-> 0, hasMono |-> TRUE]

----------------------------------------------------------------------------
\* Window tracker: helpers

\* a >= b for float64 values held as <<numerator, denominator>>
RatioGE(a, b) == a[1] * b[2] >= b[1] * a[2]

\* a ratio equal to the "high" threshold is not enough
modeFromStrict(idle, ratio, c) ==
  IF idle >= c.ContinuousIdleThreshold THEN ModeIdle
  ELSE IF ~RatioGE(c.HighProductiveRatio, ratio) THEN ModeHighProductive
  ELSE IF RatioGE(ratio, c.SimpleProductiveRatio) THEN ModeSimpleProductive
  ELSE ModeIdle

modeFrom(idle, ratio, c) ==
  IF idle >= c.ContinuousIdleThreshold THEN ModeIdle
  ELSE IF RatioGE(ratio, c.HighProductiveRatio) THEN ModeHighProductive
  ELSE IF RatioGE(ratio, c.SimpleProductiveRatio) THEN ModeSimpleProductive
  ELSE ModeIdle

\* an idle time equal to the threshold still counts as active
isActiveInclusive(idle) == idle <= conf.ActiveIfIdleLessThan

\* isActive := idleNow < cfg.ActiveIfIdleLessThan
isActive(idle) == idle < conf.ActiveIfIdleLessThan

\* the loop compares wall-clock readings only
RECURSIVE DropIndexWall(_, _, _)
DropIndexWall(s, cutoff, i) ==
  IF i < Len(s) /\ s[i + 1].t.wall < cutoff.wall THEN DropIndexWall(s, cutoff, i + 1) ELSE i

\* i := 0; for i < len(samples) && samples[i].t.Before(cutoff) { i++ }
RECURSIVE DropIndex(_, _, _)
DropIndex(s, cutoff, i) ==
  IF i < Len(s) /\ Before(s[i + 1].t, cutoff) THEN DropIndex(s, cutoff, i + 1) ELSE i

\* the loop also drops a sample that is exactly WindowSize old
RECURSIVE DropIndexInclusive(_, _, _)
DropIndexInclusive(s, cutoff, i) ==
  IF i < Len(s) /\ ~After(s[i + 1].t, cutoff) THEN DropIndexInclusive(s, cutoff, i + 1) ELSE i

DropOldInclusive(s, cutoff) ==
  LET i == DropIndexInclusive(s, cutoff, 0)
  IN  IF i > 0 THEN SubSeq(s, i + 1, Len(s)) ELSE s

\* if i > 0 { samples = samples[i:] }
DropOld(s, cutoff) ==
  LET i == DropIndex(s, cutoff, 0)
  IN  IF i > 0 THEN SubSeq(s, i + 1, Len(s)) ELSE s

\* the loop counts the samples that are not active
ActiveCountInverted(s) == Cardinality({i \in DOMAIN s : ~s[i].active})

ActiveCount(s) == Cardinality({i \in DOMAIN s : s[i].active})

ActiveRatioOf(s) ==
  IF Len(s) > 0 THEN <<ActiveCount(s), Len(s)>> ELSE <<0, 1>>

----------------------------------------------------------------------------
\* Environment steps, common to both programs

\* the wall clock is set backwards or forwards; the monotonic clock is not
AdjustClock ==
  /\ UNCHANGED <<tickC, startErr, partVars>>
  /\ pc = "select"
  /\ adjustments < MaxAdjust
  /\ \E d \in ClockSteps :
       /\ clock.wall + d > 0
       /\ clock' = [clock EXCEPT !.wall = @ + d]
  /\ adjustments' = adjustments + 1
  /\ UNCHANGED <<pc, now, ticks, cancelled, lines, unsynced, lastMouse, lastMousePrint,
                 idleNow, idleErr, conf, trackerVars, monitorVars>>

\* os.Interrupt arrives: ctx.Done() is closed
Cancel ==
  /\ UNCHANGED <<tickC, startErr, partVars>>
  /\ pc = "select"
  /\ ~cancelled
  /\ cancelled' = TRUE
  /\ UNCHANGED <<pc, clock, now, ticks, adjustments, lines, unsynced, lastMouse,
                 lastMousePrint, idleNow, idleErr, conf, trackerVars, monitorVars>>

\* case <-flushTicker.C: rot.Sync()
Flush ==
  /\ UNCHANGED <<tickC, startErr, partVars>>
  /\ pc = "select"
  /\ unsynced' = FALSE
  /\ lines' = <<>>
  /\ UNCHANGED <<pc, clock, now, ticks, adjustments, cancelled, lastMouse,
                 lastMousePrint, idleNow, idleErr, conf, trackerVars, monitorVars>>

\* the loop returns without its STOP line
StopSilent ==
  /\ UNCHANGED <<tickC, startErr, partVars>>
  /\ pc = "select"
  /\ cancelled
  /\ lines' = lines
  /\ unsynced' = FALSE
  /\ pc' = "exited"
  /\ UNCHANGED <<clock, now, ticks, adjustments, cancelled, lastMouse, lastMousePrint,
                 idleNow, idleErr, conf, trackerVars, monitorVars>>

\* case <-ctx.Done(): writeLine(STOP); return  (deferred rot.Close() syncs)
Stop ==
  /\ UNCHANGED <<tickC, startErr, partVars>>
  /\ pc = "select"
  /\ cancelled
  /\ lines' = <<"STOP">>
  /\ unsynced' = FALSE
  /\ pc' = "exited"
  /\ UNCHANGED <<clock, now, ticks, adjustments, cancelled, lastMouse, lastMousePrint,
                 idleNow, idleErr, conf, trackerVars, monitorVars>>

----------------------------------------------------------------------------
\* Window tracker: main

\* the environment and the state both programs hold
InitShared ==
  /\ clock = StartClock
  /\ now = ZeroTime
  /\ ticks = 0
  /\ adjustments = 0
  /\ cancelled = FALSE
  /\ lines = <<>>
  /\ unsynced = FALSE
  /\ lastMouse = <<0, 0>>
  /\ lastMousePrint = ZeroTime
  /\ idleErr = FALSE
  /\ tickC = <<>>
  /\ startErr = ""

\* var ( samples []sample; lastMode Mode = ""; lastStatusPrint = time.Time{} )
InitWindow ==
  /\ samples = <<>>
  /\ pushed = <<>>
  /\ lastStatusPrint = ZeroTime
  /\ sampled = FALSE

InitBucket ==
  /\ lastMouseMoveAt = ZeroTime
  /\ rolled = FALSE
  /\ upserts = <<>>

\* the variables of main before main runs
InitMain ==
  /\ idleNow = 0
  /\ conf = cfg
  /\ InitShared
  /\ InitWindow
  /\ lastMode = ""
  /\ activeRatio = <<0, 1>>
  /\ mode = ""
  /\ InitBucket
  /\ hourStart = ZeroTime
  /\ idleSecondsInHour = 0
  /\ samplesInHour = 0

\* no call of rqliteExec is being followed
NoExec ==
  /\ resp = <<>>
  /\ execErr = ""

\* the calendar dates the log writer sees: two consecutive days
Days == {1, 2}

\* the goroutines that call the writer
Threads == {"main", "other"}

\* a goroutine outside the writer's methods
IdleThread == [op |-> "", step |-> "idle", date |-> 0, h |-> <<>>, line |-> 0]

\* no RotatingLogger is being followed: none made, empty directory
NoLogger ==
  /\ day = 1
  /\ alive = FALSE
  /\ curDate = <<>>
  /\ file = <<>>
  /\ logger = <<>>
  /\ handles = {}
  /\ nextId = 1
  /\ files = [d \in Days |-> [exists |-> FALSE, content |-> <<>>]]
  /\ written = <<>>
  /\ nLines = 0
  /\ restarts = 0
  /\ mu = {}
  /\ th = [t \in Threads |-> IdleThread]
  /\ staleUse = FALSE

\* no call of getIdleDuration is being followed
NoIdleCall ==
  /\ tickIn = <<>>
  /\ idleMillis = <<0, 0, 0, 0>>

\* no request to the detector backend is being followed
NoRequest ==
  /\ req = <<>>
  /\ reply = <<>>

InitParts == NoExec /\ NoLogger /\ NoIdleCall /\ NoRequest

InitCommon ==
  /\ pc = "startup"
  /\ InitMain
  /\ InitParts

Init == InitCommon

\* main goes on into its loop although the first getMousePos failed
startupPcIgnoreCursor(err) == IF err = "logger" THEN "exited" ELSE "select"

\* the two returns of main before its loop
startupPc(err) == IF err # "" THEN "exited" ELSE "select"

\* main up to the for loop: NewRotatingLogger, first getMousePos, START line
TrackerStartup ==
  /\ UNCHANGED <<tickC, partVars>>
  /\ pc = "startup"
  /\ \E logOk \in BOOLEAN, cur \in CursorResults :
       LET err == IF ~logOk THEN "logger" ELSE IF cur.err THEN "cursor" ELSE ""
       IN  /\ startErr' = err
           /\ pc' = startupPc(err)
           /\ IF err = "logger"
              THEN UNCHANGED <<lines, unsynced, lastMouse>>
              ELSE IF err = "cursor"
              THEN /\ lines' = <<"GetCursorPos error">>
                   /\ unsynced' = FALSE
                   /\ UNCHANGED lastMouse
              ELSE /\ lines' = <<"START">>
                   /\ unsynced' = TRUE
                   /\ lastMouse' = cur.p
  /\ UNCHANGED <<clock, now, ticks, adjustments, cancelled, lastMousePrint,
                 idleNow, idleErr, conf, trackerVars, monitorVars>>

\* a failing getMousePos makes the handler skip the sample as well
skipSampleOnAnyError(curErr, idleError) == curErr \/ idleError

\* if err != nil { writeLine(GetLastInputInfo error); continue }: the tick takes no sample
skipSample(curErr, idleError) == idleError

\* a STATUS line is due on every tick
statusDueAlways(t, last) == TRUE

\* lastStatusPrint.IsZero() || now.Sub(lastStatusPrint) >= cfg.PrintStatusEvery
statusDue(t, last) == IsZero(last) \/ Sub(t, last) >= PrintStatusEvery

\* the handler of case now := <-ticker.C of the window tracker, for the value t
\* received, with the results cur of getMousePos and idle of getIdleDuration
TrackerHandle(t, cur, idle) ==
  /\ LET moved    == ~cur.err /\ cur.p # lastMouse
         printMv  == moved /\ ( \/ PrintMouseMoveEvery = 0
                                \/ IsZero(lastMousePrint)
                                \/ Sub(t, lastMousePrint) >= PrintMouseMoveEvery )
         l1       == IF cur.err THEN <<"GetCursorPos error">>
                     ELSE IF printMv THEN <<"MOUSE MOVE">> ELSE <<>>
         l2       == IF idle.err THEN <<"GetLastInputInfo error">> ELSE <<>>
         appended == Append(samples, [t |-> t, active |-> isActive(idle.d)])
         cutoff   == Add(t, 0 - conf.WindowSize)
         kept     == DropOld(appended, cutoff)
         ratio    == ActiveRatioOf(kept)
         m        == modeFrom(idle.d, ratio, conf)
     IN  /\ now' = t
         /\ lastMouse' = IF moved THEN cur.p ELSE lastMouse
         /\ lastMousePrint' = IF printMv THEN t ELSE lastMousePrint
         /\ idleErr' = idle.err
         /\ idleNow' = idle.d
         /\ IF skipSample(cur.err, idle.err)
            THEN /\ lines' = l1 \o l2
                 /\ sampled' = FALSE
                 /\ UNCHANGED <<samples, pushed, lastMode, lastStatusPrint,
                                activeRatio, mode>>
            ELSE /\ samples' = kept
                 /\ pushed' = Append(pushed, [t |-> t, active |-> isActive(idle.d)])
                 /\ activeRatio' = ratio
                 /\ mode' = m
                 /\ sampled' = TRUE
                 /\ IF m # lastMode
                    THEN /\ lines' = l1 \o <<"MODE CHANGE">>
                         /\ lastMode' = m
                         /\ lastStatusPrint' = t
                    ELSE IF statusDue(t, lastStatusPrint)
                    THEN /\ lines' = l1 \o <<"STATUS">>
                         /\ lastStatusPrint' = t
                         /\ UNCHANGED lastMode
                    ELSE /\ lines' = l1
                         /\ UNCHANGED <<lastMode, lastStatusPrint>>
  /\ ticks' = ticks + 1
  /\ unsynced' = (unsynced \/ lines' # <<>>)
  /\ UNCHANGED <<pc, adjustments, cancelled, conf, monitorVars, startErr, partVars>>

\* the ticker sends a value and the loop receives it at once:
\* case now := <-ticker.C of the window tracker, the whole handler
TrackerTick ==
  /\ pc = "select"
  /\ ticks < MaxTicks
  /\ \E gap \in TickGaps, cur \in CursorResults, idle \in IdleResults :
       /\ clock' = Add(clock, gap)
       /\ TrackerHandle(Add(clock, gap), cur, idle)
  /\ UNCHANGED tickC

Next ==
  \/ TrackerStartup
  \/ TrackerTick
  \/ AdjustClock
  \/ Cancel
  \/ Flush
  \/ Stop

Spec == Init /\ [][Next]_vars

----------------------------------------------------------------------------
\* Window tracker: the select loop with ticker.C as a channel.  The ticker
\* sends into a channel of capacity 1; the loop receives when select picks that
\* case; select picks any of the cases that are ready.

\* the ticker sends the time into ticker.C (it drops the value if the channel is full)
TickFire ==
  /\ pc = "select"
  /\ tickC = <<>>
  /\ ticks < MaxStopTicks
  /\ \E gap \in TickGaps :
       /\ clock' = Add(clock, gap)
       /\ tickC' = <<Add(clock, gap)>>
  /\ UNCHANGED <<pc, now, ticks, adjustments, cancelled, lines, unsynced, lastMouse,
                 lastMousePrint, idleNow, idleErr, startErr, conf, trackerVars,
                 monitorVars, partVars>>

\* case now := <-ticker.C, the whole handler
TrackerReceive ==
  /\ pc = "select"
  /\ tickC # <<>>
  /\ \E cur \in CursorResults, idle \in IdleResults : TrackerHandle(tickC[1], cur, idle)
  /\ tickC' = <<>>
  /\ UNCHANGED clock

NextStop ==
  \/ TrackerStartup
  \/ TickFire
  \/ TrackerReceive
  \/ AdjustClock
  \/ Cancel
  \/ Flush
  \/ Stop

\* ctx.Done() stays ready once it is closed, and select picks among the ready
\* cases at random: the case is not passed over forever
SpecStop == Init /\ [][NextStop]_vars /\ WF_vars(Stop)

----------------------------------------------------------------------------
\* Window tracker: consecutive ticks, one SampleEvery apart, with a window of
\* 10 s and an activity threshold of 2 s; every idle read succeeds and the
\* cursor does not move

ScenarioCfg == [cfg EXCEPT !.WindowSize = 10, !.ActiveIfIdleLessThan = 2]

\* getIdleDuration(): below and at the activity threshold
ScenarioIdle == {[err |-> FALSE, d |-> d] : d \in {0, ScenarioCfg.ActiveIfIdleLessThan}}

InitScenario ==
  /\ pc = "startup"
  /\ idleNow = 0
  /\ conf = ScenarioCfg
  /\ InitShared
  /\ InitWindow
  /\ lastMode = ""
  /\ activeRatio = <<0, 1>>
  /\ mode = ""
  /\ InitBucket
  /\ hourStart = ZeroTime
  /\ idleSecondsInHour = 0
  /\ samplesInHour = 0
  /\ InitParts

\* case now := <-ticker.C, one SampleEvery after the previous value
ScenarioTick ==
  /\ pc = "select"
  /\ ticks < MaxScenarioTicks
  /\ \E idle \in ScenarioIdle :
       /\ clock' = Add(clock, SampleEvery)
       /\ TrackerHandle(Add(clock, SampleEvery), [err |-> FALSE, p |-> lastMouse], idle)
  /\ UNCHANGED tickC

NextScenario ==
  \/ TrackerStartup
  \/ ScenarioTick

SpecScenario == InitScenario /\ [][NextScenario]_vars

----------------------------------------------------------------------------
\* RotatingLogger: one writer, the goroutines that call it, the log directory
\*
\* A handle is [id, date]: date is the date in the name of the file it was
\* opened on (filenameFor).  The errors of File.Sync, File.Close and of the
\* write of logger.Println are dropped by the code and change nothing it
\* holds; a Close releases the handle whatever it returns.

\* only the date is compared: a writer without a handle is left as it is
needsRotateDateOnly(date) == curDate # <<date>>

\* date == r.curDate && r.file != nil && r.logger != nil  does not hold
needsRotate(date) == ~(curDate = <<date>> /\ file # <<>> /\ logger # <<>>)

\* r.file = nil without r.file.Close(): the handle stays open
closeOldLeak(h, open) == open

\* r.file.Sync(); r.file.Close()
closeOld(h, open) == open \ {h}

\* the file is opened with os.O_TRUNC
openFileTrunc(fs, d) == [fs EXCEPT ![d] = [exists |-> TRUE, content |-> <<>>]]

\* os.OpenFile(path, os.O_CREATE|os.O_APPEND|os.O_WRONLY, 0644) on the directory fs
openFile(fs, d) == [fs EXCEPT ![d] = [exists |-> TRUE, content |-> @.content]]

\* Sync takes no lock
acquireExceptSync(m, op) == op = "Sync" \/ m = {}

\* r.mu.Lock() can return: nobody holds r.mu
acquire(m, op) == m = {}

\* a method of os.File is called on h
use(h) == staleUse' = (staleUse \/ h \notin handles)

\* a goroutine calls rot.Println(line), rot.Sync() or rot.Close()
Call(t) ==
  /\ alive
  /\ th[t].step = "idle"
  /\ \E op \in {"Println", "Sync", "Close"} :
       /\ op = "Println" => nLines < MaxLines
       /\ nLines' = IF op = "Println" THEN nLines + 1 ELSE nLines
       /\ th' = [th EXCEPT ![t] = [IdleThread EXCEPT !.op = op, !.step = "lock",
                                     !.line = IF op = "Println" THEN nLines + 1 ELSE 0]]
  /\ UNCHANGED <<mainVars, execVars, idleVars, parseVars, day, alive, curDate, file, logger, handles, nextId,
                 files, written, restarts, mu, staleUse>>

\* r.mu.Lock()
Lock(t) ==
  /\ th[t].step = "lock"
  /\ acquire(mu, th[t].op)
  /\ mu' = mu \cup {t}
  /\ th' = [th EXCEPT ![t].step = CASE th[t].op = "Println" -> "rotate"
                                    [] th[t].op = "Sync"    -> "sync"
                                    [] th[t].op = "Close"   -> "close"]
  /\ UNCHANGED <<mainVars, execVars, idleVars, parseVars, day, alive, curDate, file, logger, handles, nextId,
                 files, written, nLines, restarts, staleUse>>

\* Println: rotateIfNeeded(time.Now()) up to os.OpenFile
Rotate(t) ==
  /\ th[t].step = "rotate"
  /\ IF ~needsRotate(day)
     THEN /\ th' = [th EXCEPT ![t].step = "write", ![t].date = day]
          /\ UNCHANGED <<file, logger, handles, staleUse>>
     ELSE /\ th' = [th EXCEPT ![t].step = "open", ![t].date = day]
          /\ IF file # <<>>
             THEN /\ use(file[1])
                  /\ handles' = closeOld(file[1], handles)
                  /\ file' = <<>>
                  /\ logger' = <<>>
             ELSE UNCHANGED <<file, logger, handles, staleUse>>
  /\ UNCHANGED <<mainVars, execVars, idleVars, parseVars, day, alive, curDate, nextId, files, written, nLines,
                 restarts, mu>>

\* Println: rotateIfNeeded from os.OpenFile on
Open(t) ==
  /\ th[t].step = "open"
  /\ \E ok \in BOOLEAN :
       IF ok
       THEN LET h == [id |-> nextId, date |-> th[t].date]
            IN  /\ files' = openFile(files, th[t].date)
                /\ handles' = handles \cup {h}
                /\ nextId' = nextId + 1
                /\ curDate' = <<th[t].date>>
                /\ file' = <<h>>
                /\ logger' = <<h>>
       ELSE UNCHANGED <<files, handles, nextId, curDate, file, logger>>
  /\ th' = [th EXCEPT ![t].step = "write"]
  /\ UNCHANGED <<mainVars, execVars, idleVars, parseVars, day, alive, written, nLines, restarts, mu, staleUse>>

\* Println: if r.logger != nil { r.logger.Println(line) }
Write(t) ==
  /\ th[t].step = "write"
  /\ IF logger # <<>>
     THEN /\ use(logger[1])
          /\ files' = IF logger[1] \in handles
                      THEN [files EXCEPT ![logger[1].date].content =
                              Append(@, [n |-> th[t].line, run |-> restarts])]
                      ELSE files
     ELSE UNCHANGED <<files, staleUse>>
  /\ written' = Append(written, [n |-> th[t].line, run |-> restarts, date |-> th[t].date])
  /\ th' = [th EXCEPT ![t].step = "unlock"]
  /\ UNCHANGED <<mainVars, execVars, idleVars, parseVars, day, alive, curDate, file, logger, handles, nextId,
                 nLines, restarts, mu>>

\* Sync: if r.file != nil, up to the call of r.file.Sync
SyncRead(t) ==
  /\ th[t].step = "sync"
  /\ th' = IF file = <<>> THEN [th EXCEPT ![t].step = "unlock"]
           ELSE [th EXCEPT ![t].step = "fsync", ![t].h = file]
  /\ UNCHANGED <<mainVars, execVars, idleVars, parseVars, day, alive, curDate, file, logger, handles, nextId,
                 files, written, nLines, restarts, mu, staleUse>>

\* Sync: _ = r.file.Sync()
SyncCall(t) ==
  /\ th[t].step = "fsync"
  /\ use(th[t].h[1])
  /\ th' = [th EXCEPT ![t].step = "unlock"]
  /\ UNCHANGED <<mainVars, execVars, idleVars, parseVars, day, alive, curDate, file, logger, handles, nextId,
                 files, written, nLines, restarts, mu>>

\* Close: if r.file != nil { Sync; Close; r.file = nil; r.logger = nil }
CloseFile(t) ==
  /\ th[t].step = "close"
  /\ IF file # <<>>
     THEN /\ use(file[1])
          /\ handles' = closeOld(file[1], handles)
          /\ file' = <<>>
          /\ logger' = <<>>
     ELSE UNCHANGED <<file, logger, handles, staleUse>>
  /\ th' = [th EXCEPT ![t].step = "unlock"]
  /\ UNCHANGED <<mainVars, execVars, idleVars, parseVars, day, alive, curDate, nextId, files, written, nLines,
                 restarts, mu>>

\* the deferred r.mu.Unlock(), and the return
Unlock(t) ==
  /\ th[t].step = "unlock"
  /\ mu' = mu \ {t}
  /\ th' = [th EXCEPT ![t] = IdleThread]
  /\ UNCHANGED <<mainVars, execVars, idleVars, parseVars, day, alive, curDate, file, logger, handles, nextId,
                 files, written, nLines, restarts, staleUse>>

\* midnight passes, or the wall clock is set to another date
DateChange ==
  /\ \E d \in Days \ {day} : day' = d
  /\ UNCHANGED <<mainVars, execVars, idleVars, parseVars, alive, curDate, file, logger, handles, nextId, files,
                 written, nLines, restarts, mu, th, staleUse>>

\* NewRotatingLogger(dir, base): MkdirAll, rotateIfNeeded(time.Now()) on the new value
NewRotatingLogger ==
  /\ ~alive
  /\ \E ok \in BOOLEAN :
       IF ok
       THEN LET h == [id |-> nextId, date |-> day]
            IN  /\ files' = openFile(files, day)
                /\ handles' = handles \cup {h}
                /\ nextId' = nextId + 1
                /\ curDate' = <<day>>
                /\ file' = <<h>>
                /\ logger' = <<h>>
                /\ alive' = TRUE
       ELSE UNCHANGED <<files, handles, nextId, curDate, file, logger, alive>>
  /\ UNCHANGED <<mainVars, execVars, idleVars, parseVars, day, written, nLines, restarts, mu, th, staleUse>>

\* the process ends (return from main, or a crash at any point): its goroutines
\* and its handles are gone, the files stay
Exit ==
  /\ alive
  /\ restarts < MaxRestarts
  /\ alive' = FALSE
  /\ restarts' = restarts + 1
  /\ handles' = {}
  /\ curDate' = <<>>
  /\ file' = <<>>
  /\ logger' = <<>>
  /\ mu' = {}
  /\ th' = [t \in Threads |-> IdleThread]
  /\ UNCHANGED <<mainVars, execVars, idleVars, parseVars, day, nextId, files, written, nLines, staleUse>>

InitLogger ==
  /\ pc = "logger"
  /\ InitMain
  /\ NoExec
  /\ NoLogger
  /\ NoIdleCall
  /\ NoRequest

NextLogger ==
  \/ NewRotatingLogger
  \/ Exit
  \/ DateChange
  \/ \E t \in Threads :
       \/ Call(t)
       \/ Lock(t)
       \/ Rotate(t)
       \/ Open(t)
       \/ Write(t)
       \/ SyncRead(t)
       \/ SyncCall(t)
       \/ CloseFile(t)
       \/ Unlock(t)

SpecLogger == InitLogger /\ [][NextLogger]_vars

----------------------------------------------------------------------------
\* getIdleDuration: the idle time from GetTickCount64 and LASTINPUTINFO.dwTime
\*
\* A uint64 is held as four 16-bit limbs, the lowest first, so that the
\* arithmetic keeps its width: <<l1, l2, l3, l4>> is l1 + l2*2^16 + l3*2^32 +
\* l4*2^48.  A uint32 is <<l1, l2>>.

LimbBase == 2 ^ 16

\* limb values tried: 0, 1, 0x10, 0x20, 0x7FFF, 0x8000, 0xFFF0, 0xFFFF
Limbs == {0, 1, 16, 32, 32767, 32768, 65520, 65535}

\* a >= b on uint64
GEU64(a, b) ==
  \/ a[4] > b[4]
  \/ a[4] = b[4] /\ a[3] > b[3]
  \/ a[4] = b[4] /\ a[3] = b[3] /\ a[2] > b[2]
  \/ a[4] = b[4] /\ a[3] = b[3] /\ a[2] = b[2] /\ a[1] >= b[1]

\* a - b on uint64 (wraps)
SubU64(a, b) ==
  LET d1 == a[1] - b[1]
      d2 == a[2] - b[2] - (IF d1 < 0 THEN 1 ELSE 0)
      d3 == a[3] - b[3] - (IF d2 < 0 THEN 1 ELSE 0)
      d4 == a[4] - b[4] - (IF d3 < 0 THEN 1 ELSE 0)
  IN  <<d1 % LimbBase, d2 % LimbBase, d3 % LimbBase, d4 % LimbBase>>

\* a + b on uint64 (wraps)
AddU64(a, b) ==
  LET s1 == a[1] + b[1]
      s2 == a[2] + b[2] + (s1 \div LimbBase)
      s3 == a[3] + b[3] + (s2 \div LimbBase)
      s4 == a[4] + b[4] + (s3 \div LimbBase)
  IN  <<s1 % LimbBase, s2 % LimbBase, s3 % LimbBase, s4 % LimbBase>>

\* uint64(lii.DwTime)
FromU32(w) == <<w[1], w[2], 0, 0>>

\* now & 0xFFFFFFFF
Low32(a) == <<a[1], a[2], 0, 0>>

\* 0x100000000
TwoTo32 == <<0, 0, 1, 0>>

\* the branch for a wrapped counter is missing
idleMillisNoWrap(tick64, dwTime) ==
  SubU64(Low32(tick64), FromU32(dwTime))

\* idleMillis of getIdleDuration, from GetTickCount64() and lii.DwTime
idleMillisOf(tick64, dwTime) ==
  LET last  == FromU32(dwTime)
      now32 == Low32(tick64)
  IN  IF GEU64(now32, last)
      THEN SubU64(now32, last)
      ELSE AddU64(SubU64(TwoTo32, last), now32)

\* GetTickCount64() (below 2^33 here) and lii.DwTime
TickInputs ==
  [ now  : {<<a, b, c, 0>> : a \in Limbs, b \in Limbs, c \in {0, 1}},
    last : Limbs \X Limbs ]

InitIdle ==
  /\ pc = "call"
  /\ InitMain
  /\ NoExec
  /\ NoLogger
  /\ NoRequest
  /\ tickIn \in {<<i>> : i \in TickInputs}
  /\ idleMillis = <<0, 0, 0, 0>>

\* getIdleDuration, when GetLastInputInfo succeeded
IdleCall ==
  /\ pc = "call"
  /\ tickIn # <<>>
  /\ idleMillis' = idleMillisOf(tickIn[1].now, tickIn[1].last)
  /\ pc' = "return"
  /\ UNCHANGED <<clock, now, ticks, adjustments, cancelled, lines, unsynced, lastMouse,
                 lastMousePrint, idleNow, idleErr, conf, trackerVars, monitorVars,
                 tickC, startErr, execVars, loggerVars, tickIn, parseVars>>

NextIdle == IdleCall

SpecIdle == InitIdle /\ [][NextIdle]_vars

----------------------------------------------------------------------------
\* GET /activity/today of the detector backend: the start and end of the day
\* window. A string is the sequence of its bytes.

\* a byte is a uint8: its arithmetic is modulo 2^8
ByteBase == 2 ^ 8

\* len(s) != 5
TimeLen == 5

\* ':'
Colon == 58

\* '0'
Digit0 == 48

\* the bytes of the strings tried: "/", "0", "2", "4", "6", ":" and "J"
Bytes == {47, 48, 50, 52, 54, 58, 74}

\* c.Query("start", "07:00")
DefaultStart == <<48, 55, 58, 48, 48>>

\* c.Query("end", "16:00")
DefaultEnd == <<49, 54, 58, 48, 48>>

\* the values of one query parameter: every string of five of the bytes, and
\* strings that are shorter or longer
TimeStrings ==
  {<<a, b, c, d, e>> : a \in Bytes, b \in Bytes, c \in Bytes, d \in Bytes, e \in Bytes}
    \cup {<<>>, <<55, 58, 48, 48>>, <<48, 55, 58, 48, 48, 48>>}

\* a - b on bytes
byteSub(a, b) == (a + ByteBase - b) % ByteBase

\* (s[i]-'0')*10 + (s[j] - '0') on bytes, then int(...)
twoDigits(a, b) == (((byteSub(a, Digit0) * 10) % ByteBase) + byteSub(b, Digit0)) % ByteBase

parseHHMM(s) ==
  IF Len(s) # TimeLen \/ s[3] # Colon
  THEN [h |-> 0, m |-> 0, ok |-> FALSE]
  ELSE LET h == twoDigits(s[1], s[2])
           m == twoDigits(s[4], s[5])
       IN  IF h < 0 \/ h > 23 \/ m < 0 \/ m > 59
           THEN [h |-> 0, m |-> 0, ok |-> FALSE]
           ELSE [h |-> h, m |-> m, ok |-> TRUE]

\* one request: the date parses or not, one of start and end is given, the
\* repository answers or fails
Requests ==
  [dateOk : BOOLEAN, start : TimeStrings, end : {DefaultEnd}, repoErr : BOOLEAN]
    \cup [dateOk : BOOLEAN, start : {DefaultStart}, end : TimeStrings, repoErr : BOOLEAN]

InitParse ==
  /\ pc = "call"
  /\ InitMain
  /\ NoExec
  /\ NoLogger
  /\ NoIdleCall
  /\ req \in {<<r>> : r \in Requests}
  /\ reply = <<>>

\* ActivityHandler.GetToday
GetToday ==
  /\ pc = "call"
  /\ req # <<>>
  /\ LET r  == req[1]
         st == parseHHMM(r.start)
         en == parseHHMM(r.end)
     IN  reply' =
           IF ~r.dateOk
           THEN <<[status |-> 400, msg |-> "invalid date (use YYYY-MM-DD)",
                   start |-> <<>>, end |-> <<>>]>>
           ELSE IF ~st.ok
           THEN <<[status |-> 400, msg |-> "invalid start (use HH:MM)",
                   start |-> <<>>, end |-> <<>>]>>
           ELSE IF ~en.ok
           THEN <<[status |-> 400, msg |-> "invalid end (use HH:MM)",
                   start |-> <<>>, end |-> <<>>]>>
           ELSE IF r.repoErr
           THEN <<[status |-> 502, msg |-> "err.Error()",
                   start |-> <<st.h, st.m>>, end |-> <<en.h, en.m>>]>>
           ELSE <<[status |-> 200, msg |-> "",
                   start |-> <<st.h, st.m>>, end |-> <<en.h, en.m>>]>>
  /\ pc' = "return"
  /\ UNCHANGED <<clock, now, ticks, adjustments, cancelled, lines, unsynced, lastMouse,
                 lastMousePrint, idleNow, idleErr, conf, trackerVars, monitorVars,
                 tickC, startErr, execVars, loggerVars, idleVars, req>>

NextParse == GetToday

SpecParse == InitParse /\ [][NextParse]_vars

----------------------------------------------------------------------------
\* rqliteExec (hourly monitor): POST the statements, validate the reply

\* entries of "results" in one reply
MaxResults == 2

\* resp.StatusCode
StatusCodes == {199, 200, 204, 299, 300, 404, 500}

\* the sequences over S of length at most n
RECURSIVE SeqsUpTo(_, _)
SeqsUpTo(S, n) ==
  IF n = 0 THEN {<<>>}
  ELSE LET shorter == SeqsUpTo(S, n - 1)
       IN  shorter \cup {Append(q, x) : q \in {r \in shorter : Len(r) = n - 1}, x \in S}

\* What one call meets.
\*   request:   "emptyURL" (cfg.RqliteBaseURL == ""), "badURL" (http.NewRequest
\*              fails) or "ok"
\*   transport: httpClient.Do returned no error
\*   status:    resp.StatusCode
\*   parses:    json.Unmarshal of the bytes read accepts them as rqliteExecuteResp
\*              (the error of io.ReadAll is dropped: a short read shows here or not at all)
\*   error:     parsed.Error
\*   results:   parsed.Results[i].Error
ExecInputs ==
  [ request   : {"ok", "emptyURL", "badURL"},
    transport : BOOLEAN,
    status    : StatusCodes,
    parses    : BOOLEAN,
    error     : {"", "no such table"},
    results   : SeqsUpTo({"", "constraint failed"}, MaxResults) ]

\* the loop over parsed.Results is missing
rqliteExecTopLevelOnly(r) ==
  IF r.request = "emptyURL" THEN "RqliteBaseURL is empty"
  ELSE IF r.request = "badURL" THEN "NewRequest"
  ELSE IF ~r.transport THEN "Do"
  ELSE IF r.status < 200 \/ r.status >= 300 THEN "rqlite execute failed: HTTP"
  ELSE IF ~r.parses THEN "rqlite execute: cannot parse JSON"
  ELSE IF r.error # "" THEN "rqlite execute error"
  ELSE ""

\* the error rqliteExec returns, "" for nil
rqliteExec(r) ==
  IF r.request = "emptyURL" THEN "RqliteBaseURL is empty"
  ELSE IF r.request = "badURL" THEN "NewRequest"
  ELSE IF ~r.transport THEN "Do"
  ELSE IF r.status < 200 \/ r.status >= 300 THEN "rqlite execute failed: HTTP"
  ELSE IF ~r.parses THEN "rqlite execute: cannot parse JSON"
  ELSE IF r.error # "" THEN "rqlite execute error"
  ELSE IF \E i \in DOMAIN r.results : r.results[i] # "" THEN "rqlite SQL error"
  ELSE ""

InitExec ==
  /\ pc = "call"
  /\ InitMain
  /\ resp \in {<<r>> : r \in ExecInputs}
  /\ execErr = ""
  /\ NoLogger
  /\ NoIdleCall
  /\ NoRequest

\* err := rqliteExec(httpClient, cfg, stmts)
Exec ==
  /\ pc = "call"
  /\ resp # <<>>
  /\ execErr' = rqliteExec(resp[1])
  /\ pc' = "return"
  /\ UNCHANGED <<clock, now, ticks, adjustments, cancelled, lines, unsynced, lastMouse,
                 lastMousePrint, idleNow, idleErr, conf, trackerVars, monitorVars, resp,
                 tickC, startErr, loggerVars, idleVars, parseVars>>

NextExec == Exec

SpecExec == InitExec /\ [][NextExec]_vars

----------------------------------------------------------------------------
\* Hourly monitor: helpers

\* the literal 3600.0 of idleRatio := idleSecondsInHour / 3600.0
SecondsPerHour == 3600

\* idleRatio is not clamped to 1
activityPctNoClamp(idleSeconds, nSamples) ==
  IF nSamples > 0
  THEN LET r == IF idleSeconds < 0 THEN 0 ELSE idleSeconds
       IN  <<(SecondsPerHour - r) * 100, SecondsPerHour>>
  ELSE <<0, 1>>

\* activityPct of the rollover branch, a float64 held as <<numerator, denominator>>
activityPctOf(idleSeconds, nSamples) ==
  IF nSamples > 0
  THEN LET r == IF idleSeconds < 0 THEN 0
                ELSE IF idleSeconds > SecondsPerHour THEN SecondsPerHour
                ELSE idleSeconds
       IN  <<(SecondsPerHour - r) * 100, SecondsPerHour>>
  ELSE <<0, 1>>

\* a < n for a float64 held as <<numerator, denominator>> and a whole number n
RatioLT(a, n) == a[1] < n * a[2]

\* the thresholds are compared with <=
statusForInclusive(activityPct, nSamples) ==
  IF nSamples = 0 \/ activityPct[1] = 0 THEN "OFF"
  ELSE IF activityPct[1] <= 50 * activityPct[2] THEN "LOW"
  ELSE IF activityPct[1] <= 60 * activityPct[2] THEN "ACTIVE"
  ELSE "HIGH_PRODUCTION"

statusFor(activityPct, nSamples) ==
  IF nSamples = 0 \/ activityPct[1] = 0 THEN "OFF"
  ELSE IF RatioLT(activityPct, 50) THEN "LOW"
  ELSE IF RatioLT(activityPct, 60) THEN "ACTIVE"
  ELSE "HIGH_PRODUCTION"

\* the bucket is sealed whenever the tick's hour differs from hourStart
rolloverOnChange(curHour, start) == curHour # start

\* if curHour.After(hourStart)
rollover(curHour, start) == After(curHour, start)

\* the polarity is inverted: time is added while the user is active
addIdleInverted(idleSeconds, idle) ==
  IF idle < ActiveIfIdleLessThan THEN idleSeconds + SampleEvery ELSE idleSeconds

\* if idleNow >= cfg.ActiveIfIdleLessThan { idleSecondsInHour += cfg.SampleEvery.Seconds() }
addIdle(idleSeconds, idle) ==
  IF idle >= ActiveIfIdleLessThan THEN idleSeconds + SampleEvery ELSE idleSeconds

\* hourStart.UTC().Format("2006-01-02T15:00:00Z"): the date and hour, the rest is literal
hourKey(t) == t.wall \div Hour

\* hourStart is not advanced
resetBucketKeepHour(ok, curHour, start, idleSeconds, nSamples) ==
  [hourStart |-> start, idleSeconds |-> 0, samples |-> 0]

\* the counters are reset in the success branch only
resetBucketOnSuccess(ok, curHour, start, idleSeconds, nSamples) ==
  IF ok
  THEN [hourStart |-> curHour, idleSeconds |-> 0, samples |-> 0]
  ELSE [hourStart |-> curHour, idleSeconds |-> idleSeconds, samples |-> nSamples]

\* after insertHourly, whatever it returned: hourStart = curHour; idleSecondsInHour = 0;
\* samplesInHour = 0
resetBucket(ok, curHour, start, idleSeconds, nSamples) ==
  [hourStart |-> curHour, idleSeconds |-> 0, samples |-> 0]

\* the idle sample of the rollover tick is counted before the hand-off
handedOverWithTick(idleSeconds, nSamples) ==
  [idleSeconds |-> idleSeconds, samples |-> nSamples + 1]

\* the counters passed to insertHourly: idleSecondsInHour and samplesInHour as the
\* earlier ticks left them
handedOver(idleSeconds, nSamples) ==
  [idleSeconds |-> idleSeconds, samples |-> nSamples]

\* the error branch returns from main
afterInsertFatal(ok) == IF ok THEN "poll" ELSE "exited"

\* neither branch of "if err := insertHourly(...); err != nil" leaves the handler
afterInsert(ok) == "poll"

\* samplesInHour++ is outside the "if idleErr == nil"
pollCountersAlways(idle, idleSeconds, nSamples) ==
  IF idle.err
  THEN [idleSeconds |-> idleSeconds, samples |-> nSamples + 1]
  ELSE [idleSeconds |-> addIdle(idleSeconds, idle.d), samples |-> nSamples + 1]

\* the idle time is accumulated but the sample is not counted
pollCountersNoSample(idle, idleSeconds, nSamples) ==
  IF idle.err
  THEN [idleSeconds |-> idleSeconds, samples |-> nSamples]
  ELSE [idleSeconds |-> addIdle(idleSeconds, idle.d), samples |-> nSamples]

\* if idleErr == nil { samplesInHour++; if idleNow >= ... { idleSecondsInHour += ... } }
pollCounters(idle, idleSeconds, nSamples) ==
  IF idle.err
  THEN [idleSeconds |-> idleSeconds, samples |-> nSamples]
  ELSE [idleSeconds |-> addIdle(idleSeconds, idle.d), samples |-> nSamples + 1]

\* time between two values received from ticker.C
MonitorGaps == {SampleEvery, 2 * Hour}

----------------------------------------------------------------------------
\* Hourly monitor: main

InitMonitor == InitCommon

\* main up to the for loop: NewRotatingLogger, first getMousePos, hourly counters, START
MonitorStartup ==
  /\ UNCHANGED <<tickC, partVars>>
  /\ pc = "startup"
  /\ \E logOk \in BOOLEAN, cur \in CursorResults :
       LET err == IF ~logOk THEN "logger" ELSE IF cur.err THEN "cursor" ELSE ""
       IN  /\ startErr' = err
           /\ pc' = startupPc(err)
           /\ IF err = "logger"
              THEN UNCHANGED <<lines, unsynced, lastMouse, hourStart>>
              ELSE IF err = "cursor"
              THEN /\ lines' = <<"GetCursorPos error">>
                   /\ unsynced' = FALSE
                   /\ UNCHANGED <<lastMouse, hourStart>>
              ELSE /\ lines' = <<"START">>
                   /\ unsynced' = TRUE
                   /\ lastMouse' = cur.p
                   /\ hourStart' = Truncate(clock, Hour)
  /\ UNCHANGED <<clock, now, ticks, adjustments, cancelled, lastMousePrint,
                 idleNow, idleErr, conf, trackerVars, idleSecondsInHour, samplesInHour,
                 lastMouseMoveAt, rolled, upserts>>

\* case now := <-ticker.C of the hourly monitor, first part: the hour rollover
MonitorTick ==
  /\ UNCHANGED <<tickC, startErr, partVars>>
  /\ pc = "select"
  /\ ticks < MaxHourTicks
  /\ \E gap \in MonitorGaps :
       LET t       == Add(clock, gap)
           curHour == Truncate(t, Hour)
           pct     == activityPctOf(idleSecondsInHour, samplesInHour)
           status  == statusFor(pct, samplesInHour)
       IN  /\ clock' = t
           /\ now' = t
           /\ IF rollover(curHour, hourStart)
              THEN \E ok \in BOOLEAN :
                     LET b == resetBucket(ok, curHour, hourStart, idleSecondsInHour,
                                          samplesInHour)
                     IN  /\ upserts' = Append(upserts,
                                         [ hourStart   |-> hourStart.wall,
                                           key         |-> hourKey(hourStart),
                                           activityPct |-> pct,
                                           idleSeconds |-> handedOver(idleSecondsInHour,
                                                             samplesInHour).idleSeconds,
                                           samples     |-> handedOver(idleSecondsInHour,
                                                             samplesInHour).samples,
                                           status      |-> status,
                                           createdAt   |-> t.wall,
                                           ok          |-> ok ])
                         /\ lines' = IF ok THEN <<"RQLITE insert ok">>
                                     ELSE <<"RQLITE insert error">>
                         /\ hourStart' = b.hourStart
                         /\ idleSecondsInHour' = b.idleSeconds
                         /\ samplesInHour' = b.samples
                         /\ rolled' = TRUE
                         /\ pc' = afterInsert(ok)
              ELSE /\ lines' = <<>>
                   /\ rolled' = FALSE
                   /\ pc' = "poll"
                   /\ UNCHANGED <<upserts, hourStart, idleSecondsInHour, samplesInHour>>
  /\ ticks' = ticks + 1
  /\ unsynced' = (unsynced \/ lines' # <<>>)
  /\ UNCHANGED <<adjustments, cancelled, lastMouse, lastMousePrint, idleNow, idleErr, conf,
                 trackerVars, lastMouseMoveAt>>

\* second part: poll idle time and update hourly counters
MonitorPoll ==
  /\ UNCHANGED <<tickC, startErr, partVars>>
  /\ pc = "poll"
  /\ \E idle \in IdleResults :
       /\ idleErr' = idle.err
       /\ idleNow' = idle.d
       /\ LET c == pollCounters(idle, idleSecondsInHour, samplesInHour)
          IN  /\ samplesInHour' = c.samples
              /\ idleSecondsInHour' = c.idleSeconds
  /\ lines' = <<>>
  /\ pc' = "cursor"
  /\ UNCHANGED <<clock, now, ticks, adjustments, cancelled, unsynced, lastMouse,
                 lastMousePrint, conf, trackerVars, hourStart, lastMouseMoveAt, rolled, upserts>>

\* third part: mouse move event logging
MonitorCursor ==
  /\ UNCHANGED <<tickC, startErr, partVars>>
  /\ pc = "cursor"
  /\ \E cur \in CursorResults :
       LET moved   == ~cur.err /\ cur.p # lastMouse
           printMv == moved /\ ( \/ PrintMouseMoveEvery = 0
                                 \/ IsZero(lastMousePrint)
                                 \/ Sub(now, lastMousePrint) >= PrintMouseMoveEvery )
       IN  /\ lines' = IF cur.err THEN <<"GetCursorPos error">>
                       ELSE IF printMv THEN <<"EVENT=MOUSE_MOVE">> ELSE <<>>
           /\ lastMousePrint' = IF printMv THEN now ELSE lastMousePrint
           /\ lastMouse' = IF moved THEN cur.p ELSE lastMouse
           /\ lastMouseMoveAt' = IF moved THEN now ELSE lastMouseMoveAt
  /\ unsynced' = (unsynced \/ lines' # <<>>)
  /\ pc' = "select"
  /\ UNCHANGED <<clock, now, ticks, adjustments, cancelled, idleNow, idleErr, conf,
                 trackerVars, hourStart, idleSecondsInHour, samplesInHour, rolled, upserts>>

NextMonitor ==
  \/ MonitorStartup
  \/ MonitorTick
  \/ MonitorPoll
  \/ MonitorCursor
  \/ AdjustClock
  \/ Cancel
  \/ Flush
  \/ Stop

SpecMonitor == InitMonitor /\ [][NextMonitor]_vars

----------------------------------------------------------------------------
\* modeFrom on its own: every argument drawn from a bounded set

\* largest denominator (window length) of the ratios tried
MaxRatioDen == 10

ClassifyIdle ==
  {0, ActiveIfIdleLessThan, ContinuousIdleThreshold - 1, ContinuousIdleThreshold,
   ContinuousIdleThreshold + 1}

ClassifyRatios == {r \in (0 .. MaxRatioDen) \X (1 .. MaxRatioDen) : r[1] <= r[2]}

\* the configuration of main, one with other thresholds, and one whose
\* "simple" ratio is above its "high" ratio
ClassifyConfigs ==
  { cfg,
    [ cfg EXCEPT !.ContinuousIdleThreshold = ActiveIfIdleLessThan,
                 !.HighProductiveRatio     = <<1, 1>>,
                 !.SimpleProductiveRatio   = <<1, 2>> ],
    [ cfg EXCEPT !.HighProductiveRatio     = SimpleProductiveRatio,
                 !.SimpleProductiveRatio   = HighProductiveRatio ] }

InitClassify ==
  /\ pc = "call"
  /\ idleNow \in ClassifyIdle
  /\ activeRatio \in ClassifyRatios
  /\ conf \in ClassifyConfigs
  /\ lastMode \in {"", ModeHighProductive, ModeSimpleProductive, ModeIdle}
  /\ mode = ""
  /\ InitShared
  /\ InitWindow
  /\ InitBucket
  /\ hourStart = ZeroTime
  /\ idleSecondsInHour = 0
  /\ samplesInHour = 0
  /\ InitParts

\* mode := modeFrom(idleNow, activeRatio, cfg)
Classify ==
  /\ UNCHANGED <<tickC, startErr, partVars>>
  /\ pc = "call"
  /\ mode' = modeFrom(idleNow, activeRatio, conf)
  /\ pc' = "return"
  /\ UNCHANGED <<clock, now, ticks, adjustments, cancelled, lines, unsynced, lastMouse,
                 lastMousePrint, idleNow, idleErr, conf, samples, pushed, lastMode,
                 lastStatusPrint, activeRatio, sampled, monitorVars>>

NextClassify == Classify

SpecClassify == InitClassify /\ [][NextClassify]_vars

----------------------------------------------------------------------------
\* One tick of the hourly monitor from any state of the hourly counters

\* counter values tried: around 0 %, 40 %, 50 %, 60 % and 100 % of an hour
SealCounts ==
  {0, 1, 1439, 1440, 1441, 1799, 1800, 1801, 2000, 3599, 3600, 3601}

InitSeal ==
  /\ pc = "select"
  /\ idleNow = 0
  /\ conf = cfg
  /\ InitShared
  /\ InitWindow
  /\ lastMode = ""
  /\ activeRatio = <<0, 1>>
  /\ mode = ""
  /\ InitBucket
  /\ hourStart = Truncate(StartClock, Hour)
  /\ samplesInHour \in SealCounts
  /\ idleSecondsInHour \in {i \in SealCounts : i <= samplesInHour * SampleEvery}
  /\ InitParts

SealTick == ticks = 0 /\ MonitorTick

NextSeal ==
  \/ SealTick
  \/ MonitorPoll
  \/ MonitorCursor

SpecSeal == InitSeal /\ [][NextSeal]_vars

\* The hourly monitor in the middle of an hour: the loop from a bucket of any size,
\* with ticks that stay in the hour of hourStart (after the clock was set back) and
\* ticks that leave it
HourCounts == {0, SecondsPerHour}

InitHour ==
  /\ pc = "select"
  /\ idleNow = 0
  /\ conf = cfg
  /\ InitShared
  /\ InitWindow
  /\ lastMode = ""
  /\ activeRatio = <<0, 1>>
  /\ mode = ""
  /\ InitBucket
  /\ hourStart = Truncate(StartClock, Hour)
  /\ samplesInHour \in HourCounts
  /\ idleSecondsInHour \in {i \in HourCounts : i <= samplesInHour * SampleEvery}
  /\ InitParts

NextHour ==
  \/ MonitorTick
  \/ MonitorPoll
  \/ MonitorCursor
  \/ AdjustClock

SpecHour == InitHour /\ [][NextHour]_vars

----------------------------------------------------------------------------
\* Properties of the window tracker (Spec)

\* the indices of the samples of s a window ending at t holds, by the readings
\* field f ("mono" or "wall") of the timestamps
InWindowBy(s, t, f) == {i \in DOMAIN s : s[i].t[f] >= t[f] - WindowSize}

RatioBy(s, t, f) ==
  LET w == InWindowBy(s, t, f)
  IN  IF w = {} THEN <<0, 1>>
      ELSE <<Cardinality({i \in w : s[i].active}), Cardinality(w)>>

\* C1: on a tick whose idle query succeeds, activeRatio is (active samples) /
\* (samples) over exactly the samples pushed so far whose timestamp is
\* >= now - WindowSize (0 when there is none), whatever the gaps between the
\* ticks.  Timestamps are compared as time.Before compares them, by their
\* monotonic readings; as long as the wall clock was not adjusted the same
\* holds of the wall-clock readings.
C1_ActiveRatioOverWindow ==
  (pc = "select" /\ sampled) =>
    /\ activeRatio = RatioBy(pushed, now, "mono")
    /\ (adjustments = 0 => activeRatio = RatioBy(pushed, now, "wall"))

\* an old sample was evicted, one exactly WindowSize old was kept, after gaps
\* of different lengths, and one sample of the two kept is active
C1_Witness ==
  /\ pc = "select" /\ sampled
  /\ Len(pushed) = 3 /\ Len(samples) = 2
  /\ samples[1].t.mono = now.mono - WindowSize
  /\ activeRatio = <<1, 2>>

OrderedBy(s, f) == \A i, j \in DOMAIN s : i < j => s[i].t[f] <= s[j].t[f]

BoundedBy(s, t, f) ==
  \A i \in DOMAIN s : t[f] - WindowSize <= s[i].t[f] /\ s[i].t[f] <= t[f]

\* C2 as stated: after every push the retained samples are in non-decreasing
\* timestamp order and within [now - WindowSize, now], also when the ticks'
\* (wall-clock) timestamps move backwards because the clock was adjusted.
C2_Original ==
  (pc = "select" /\ sampled) =>
    /\ OrderedBy(samples, "wall")
    /\ BoundedBy(samples, now, "wall")

\* C2 amended: after every push the retained samples are in non-decreasing
\* order and within [now - WindowSize, now] by the monotonic readings that
\* time.Before compares, whatever the wall clock does, and the ratio counts
\* the retained samples only; by the wall-clock readings the same holds as
\* long as the wall clock was not adjusted.
C2_WindowOrderedAndBounded ==
  (pc = "select" /\ sampled) =>
    /\ OrderedBy(samples, "mono")
    /\ BoundedBy(samples, now, "mono")
    /\ activeRatio[2] = Len(samples)
    /\ activeRatio[1] = Cardinality({i \in DOMAIN samples : samples[i].active})
    /\ (adjustments = 0 => OrderedBy(samples, "wall") /\ BoundedBy(samples, now, "wall"))

\* the wall clock was set back between two pushes, and a sample was evicted
C2_Witness ==
  /\ pc = "select" /\ sampled
  /\ adjustments > 0
  /\ Len(samples) = 2 /\ Len(pushed) = 3
  /\ samples[2].t.wall < samples[1].t.wall

----------------------------------------------------------------------------
\* Properties of modeFrom (SpecClassify)

\* a >= b for two ratios, spelled out
GE(a, b) == a[1] * b[2] >= b[1] * a[2]

\* C3: the mode is the first matching rule of: idleNow >= continuous-idle
\* threshold -> Idle; ratio >= high ratio -> HighProductive; ratio >= simple
\* ratio -> SimpleProductive; otherwise Idle; the comparisons are inclusive,
\* and nothing but (idleNow, activeRatio, thresholds) decides the mode.
C3_ModeFromFirstMatch ==
  pc = "return" =>
    LET idle   == idleNow >= conf.ContinuousIdleThreshold
        high   == GE(activeRatio, conf.HighProductiveRatio)
        simple == GE(activeRatio, conf.SimpleProductiveRatio)
    IN  /\ idle => mode = ModeIdle
        /\ (~idle /\ high) => mode = ModeHighProductive
        /\ (~idle /\ ~high /\ simple) => mode = ModeSimpleProductive
        /\ (~idle /\ ~high /\ ~simple) => mode = ModeIdle

\* a ratio of exactly 0.60 with the thresholds of main, after another mode
C3_Witness ==
  /\ pc = "return"
  /\ conf = cfg
  /\ activeRatio = <<3, 5>>
  /\ idleNow < ContinuousIdleThreshold
  /\ lastMode = ModeIdle
  /\ mode = ModeHighProductive

----------------------------------------------------------------------------
\* Properties of the hourly monitor (SpecMonitor, SpecSeal)

\* C4: each hour key is handed to the remote store at most once in a run,
\* failed attempts included; a tick makes exactly one insertHourly call when
\* it detects a rollover and none otherwise, and no other step makes one.
C4_AtMostOncePerHour ==
  /\ [](\A i, j \in DOMAIN upserts : i # j => upserts[i].key # upserts[j].key)
  /\ [][ IF pc = "select" /\ ticks' = ticks + 1
               /\ now'.wall - (now'.wall % Hour) > hourStart.wall
         THEN Len(upserts') = Len(upserts) + 1
                /\ SubSeq(upserts', 1, Len(upserts)) = upserts
         ELSE upserts' = upserts ]_vars

\* two hours were handed over, the first attempt failed
C4_Witness ==
  /\ Len(upserts) = 2
  /\ ~upserts[1].ok
  /\ upserts[1].key < upserts[2].key

\* C5: right after the hand-off of a rollover the bucket is (the tick's
\* truncated hour, 0, 0), whether the upsert succeeded or failed.
C5_ResetAfterHandOff ==
  (pc = "poll" /\ rolled) =>
    /\ hourStart.wall % Hour = 0
    /\ hourStart.wall <= now.wall /\ now.wall < hourStart.wall + Hour
    /\ idleSecondsInHour = 0
    /\ samplesInHour = 0

\* a bucket that held samples and idle time was reset after a failed upsert
C5_Witness ==
  /\ pc = "poll" /\ rolled
  /\ ~upserts[Len(upserts)].ok
  /\ upserts[Len(upserts)].samples > 0
  /\ upserts[Len(upserts)].idleSeconds > 0
  /\ samplesInHour = 0

SomeUpsertFailed == \E i \in DOMAIN upserts : ~upserts[i].ok

\* C6: a failed upsert is not fatal: the tick writes the error line and goes
\* on to poll the idle time; afterwards main leaves the loop only on
\* cancellation, and in the loop it still takes sample ticks, flush ticks and
\* the cancellation.
C6_UpsertFailureNotFatal ==
  /\ (pc = "poll" /\ rolled /\ ~upserts[Len(upserts)].ok) =>
       /\ lines = <<"RQLITE insert error">>
       /\ ENABLED MonitorPoll
  /\ SomeUpsertFailed =>
       /\ pc = "exited" => (cancelled /\ lines = <<"STOP">>)
       /\ pc = "cursor" => ENABLED MonitorCursor
       /\ pc = "select" =>
            /\ ENABLED Flush
            /\ ticks < MaxHourTicks => ENABLED MonitorTick
            /\ IF cancelled THEN ENABLED Stop ELSE ENABLED Cancel

\* after a failed upsert on the first tick, the second tick was sampled
C6_Witness ==
  /\ Len(upserts) = 1 /\ ~upserts[1].ok
  /\ ticks = 2
  /\ pc = "cursor" /\ ~idleErr
  /\ samplesInHour = 2

\* (1 - clamp(idleSeconds / 3600, 0, 1)) * 100 as <<numerator, denominator>>
PctFormula(idleSeconds) ==
  LET c == IF idleSeconds < 0 THEN 0 ELSE IF idleSeconds > 3600 THEN 3600 ELSE idleSeconds
  IN  <<(3600 - c) * 100, 3600>>

SameRatio(a, b) == a[1] * b[2] = b[1] * a[2]

\* C7 as stated: the activityPct of every insertHourly call is
\* (1 - clamp(idleSeconds / 3600, 0, 1)) * 100, also for a bucket with no sample.
C7_Original ==
  \A i \in DOMAIN upserts :
    SameRatio(upserts[i].activityPct, PctFormula(upserts[i].idleSeconds))

\* C7 amended: the activityPct of an insertHourly call is
\* (1 - clamp(idleSeconds / 3600, 0, 1)) * 100 when the bucket holds at least
\* one sample, and 0 when it holds none.
C7_ActivityPct ==
  \A i \in DOMAIN upserts :
    IF upserts[i].samples > 0
    THEN SameRatio(upserts[i].activityPct, PctFormula(upserts[i].idleSeconds))
    ELSE upserts[i].activityPct[1] = 0

\* a bucket with more than an hour of idle time: the ratio is clamped, 0 %
C7_Witness ==
  \E i \in DOMAIN upserts :
    /\ upserts[i].idleSeconds > 3600
    /\ upserts[i].samples > 0
    /\ upserts[i].activityPct[1] = 0

\* C8: the status of a sealed bucket is "OFF" if it has no sample or its
\* activityPct is 0, else "LOW" below 50, else "ACTIVE" below 60, else
\* "HIGH_PRODUCTION"; 2000 idle seconds in 3600 samples give "LOW".
C8_StatusThresholds ==
  \A i \in DOMAIN upserts :
    LET u    == upserts[i]
        p    == u.activityPct
        off  == u.samples = 0 \/ p[1] = 0
    IN  /\ off => u.status = "OFF"
        /\ (~off /\ p[1] < 50 * p[2]) => u.status = "LOW"
        /\ (~off /\ p[1] >= 50 * p[2] /\ p[1] < 60 * p[2]) => u.status = "ACTIVE"
        /\ (~off /\ p[1] >= 60 * p[2]) => u.status = "HIGH_PRODUCTION"
        /\ (u.idleSeconds = 2000 /\ u.samples = 3600) => u.status = "LOW"

\* the bucket of the example was sealed
C8_Witness ==
  \E i \in DOMAIN upserts :
    /\ upserts[i].idleSeconds = 2000
    /\ upserts[i].samples = 3600
    /\ upserts[i].status = "LOW"

\* C9 as stated: every sample tick adds exactly one to samplesInHour.
C9_Original ==
  [][ (pc = "poll" /\ pc' = "cursor") => samplesInHour' = samplesInHour + 1 ]_vars

\* C9 amended: a sample tick adds exactly one to samplesInHour when its
\* idle query succeeds and leaves it unchanged when the query fails.
C9_SampleCounted ==
  [][ (pc = "poll" /\ pc' = "cursor") =>
        samplesInHour' = IF idleErr' THEN samplesInHour ELSE samplesInHour + 1 ]_vars

\* two ticks of the same hour were counted
C9_Witness ==
  /\ pc = "cursor" /\ ~idleErr
  /\ ticks = 2 /\ ~rolled
  /\ samplesInHour = 2

\* C10: when the idle query of a tick succeeds, idleSecondsInHour grows by one
\* sample interval if idleNow >= the activity threshold and is unchanged if
\* idleNow is below it; no other step makes it grow.
C10_IdleSecondsAccumulated ==
  [][ /\ (pc = "poll" /\ pc' = "cursor" /\ ~idleErr') =>
           idleSecondsInHour' = IF idleNow' >= ActiveIfIdleLessThan
                                THEN idleSecondsInHour + SampleEvery
                                ELSE idleSecondsInHour
      /\ idleSecondsInHour' > idleSecondsInHour =>
           (pc = "poll" /\ pc' = "cursor" /\ ~idleErr') ]_vars

\* an idle time of exactly the threshold was added to a bucket that had one
\* active sample
C10_Witness ==
  /\ pc = "cursor" /\ ~idleErr
  /\ idleNow = ActiveIfIdleLessThan
  /\ samplesInHour = 2
  /\ idleSecondsInHour = SampleEvery

----------------------------------------------------------------------------
\* Properties of rqliteExec (SpecExec)

\* the reply is one rqliteExec accepts
ReplyAccepted(r) ==
  /\ r.request = "ok"
  /\ r.transport
  /\ r.status \in 200..299
  /\ r.parses
  /\ r.error = ""
  /\ \A i \in DOMAIN r.results : r.results[i] = ""

\* C11: rqliteExec returns nil if and only if the request was sent and answered,
\* the HTTP status is 2xx, the body parses as rqliteExecuteResp, the top-level
\* error is empty and every per-statement error is empty; a transport error, a
\* non-2xx status, a malformed body, a top-level error or any per-statement
\* error each make it return an error.
C11_SuccessIffCleanReply ==
  pc = "return" /\ resp # <<>> =>
    /\ (execErr = "") <=> ReplyAccepted(resp[1])
    /\ ~resp[1].transport => execErr # ""
    /\ resp[1].status \notin 200..299 => execErr # ""
    /\ ~resp[1].parses => execErr # ""
    /\ resp[1].error # "" => execErr # ""
    /\ (\E i \in DOMAIN resp[1].results : resp[1].results[i] # "") => execErr # ""

\* a 200 reply that parses, with no top-level error, whose second statement failed
C11_Witness ==
  /\ pc = "return"
  /\ resp # <<>>
  /\ resp[1].request = "ok" /\ resp[1].transport /\ resp[1].status = 200
  /\ resp[1].parses /\ resp[1].error = ""
  /\ resp[1].results = <<"", "constraint failed">>
  /\ execErr = "rqlite SQL error"

----------------------------------------------------------------------------
\* Properties of the log writer (SpecLogger)

\* C12: the writer holds at most one open file handle at any time, whatever
\* the sequence of Println, Sync, Close and date changes; a handle is only
\* opened when none is open (rotation closes the old one first); and while
\* r.file is set it is the open handle, r.curDate is the date in the name of
\* its file, and that file exists.
C12_OneOpenHandle ==
  /\ [] ( /\ Cardinality(handles) <= 1
          /\ handles \subseteq {file[i] : i \in DOMAIN file}
          /\ file # <<>> => /\ file[1] \in handles
                            /\ curDate = <<file[1].date>>
                            /\ files[file[1].date].exists )
  /\ [][handles' \ handles # {} => handles = {}]_vars

\* a Println on date 2 has closed the handle of date 1, which was written to,
\* and opened the second handle of the run
C12_Witness ==
  /\ restarts = 0
  /\ \E t \in Threads : th[t].op = "Println" /\ th[t].step = "write"
  /\ file # <<>>
  /\ file[1] = [id |-> 2, date |-> 2]
  /\ files[1].content # <<>>

\* C13: when a Println returns, the writer holds an open handle for the date
\* that Println read, whatever the close and the open did.
C13_Original ==
  [][\A t \in Threads :
       th[t].op = "Println" /\ th[t].step = "unlock" /\ th'[t].step = "idle" /\ alive'
         => file' # <<>> /\ file'[1] \in handles' /\ curDate' = <<th[t].date>>]_vars

\* the lines Println was called with on date d, in the order of the calls' writes
WrittenOn(d) ==
  LET sel == SelectSeq(written, LAMBDA w : w.date = d)
  IN  [i \in 1..Len(sel) |-> [n |-> sel[i].n, run |-> sel[i].run]]

\* C14: every line Println was called with is exactly once in the file of the
\* date Println read, in the order of the calls, and nowhere else: none is
\* lost, none duplicated.
C14_Original ==
  \A d \in Days :
    /\ Len(files[d].content) = Len(WrittenOn(d))
    /\ \A i \in 1..Len(files[d].content) : files[d].content[i] = WrittenOn(d)[i]

\* s is a prefix of q
IsPrefix(s, q) == Len(s) <= Len(q) /\ \A i \in 1..Len(s) : s[i] = q[i]

\* C15: a file of the log directory is never removed or truncated, by a new
\* RotatingLogger after a Close or a crash or by a rotation: what it held stays,
\* unchanged, at its start, and what is written later comes after; so the lines
\* of an earlier run precede the lines of a later one.
C15_ReopenAppends ==
  /\ [] ( \A d \in Days : \A i, j \in 1..Len(files[d].content) :
            i < j => files[d].content[i].run <= files[d].content[j].run )
  /\ [][\A d \in Days :
          files[d].exists =>
            files'[d].exists /\ IsPrefix(files[d].content, files'[d].content)]_vars

\* a file holds a line of the first run followed by a line written after a restart
C15_Witness ==
  \E d \in Days :
    /\ Len(files[d].content) = 2
    /\ files[d].content[1].run = 0
    /\ files[d].content[2].run = 1

\* t is between r.mu.Lock() and the deferred r.mu.Unlock()
InCritical(t) ==
  th[t].step \in {"rotate", "open", "write", "sync", "fsync", "close", "unlock"}

\* C16: under every interleaving of callers at most one of Println, Sync and
\* Close is inside its critical section, the callers inside are those that hold
\* r.mu, and no call ever uses a handle that is no longer open.
C16_MutualExclusion ==
  /\ Cardinality({t \in Threads : InCritical(t)}) <= 1
  /\ mu = {t \in Threads : InCritical(t)}
  /\ ~staleUse

\* a Println has closed the old handle and not yet opened the new one, while a
\* Sync of another goroutine waits for r.mu
C16_Witness ==
  \E t, u \in Threads :
    /\ th[t].op = "Println" /\ th[t].step = "open"
    /\ handles = {}
    /\ th[u].op = "Sync" /\ th[u].step = "lock"

----------------------------------------------------------------------------
\* Properties of the loops on failures, at startup and at shutdown

\* the line l is among the lines ls
Wrote(l, ls) == \E i \in DOMAIN ls : ls[i] = l

C18_StartupFailuresFatal ==
  /\ [] (startErr # ""
           => /\ pc = "exited"
              /\ ~Wrote("START", lines)
              /\ ticks = 0
              /\ now = ZeroTime
              /\ pushed = <<>> /\ samples = <<>> /\ ~sampled
              /\ samplesInHour = 0 /\ idleSecondsInHour = 0
              /\ upserts = <<>>)
  /\ [] (startErr = "logger" => lines = <<>>)
  /\ [][pc # "exited"]_vars

\* the first cursor read failed: the error line is all that was written
C18_Witness ==
  /\ startErr = "cursor"
  /\ pc = "exited"
  /\ lines = <<"GetCursorPos error">>

\* C19 as stated: once cancelled, the loop eventually writes STOP, the writer
\* is flushed and main returns, STOP being the last line; and no value the
\* ticker sent is left unprocessed when main returns.
C19_Original ==
  /\ cancelled ~> (pc = "exited" /\ lines = <<"STOP">> /\ ~unsynced)
  /\ [] (pc = "exited" => tickC = <<>>)

\* C19: once cancelled, the loop eventually writes STOP, the writer is flushed
\* and main returns; STOP is the last line written; every value received from
\* the ticker was handled to the end.  A value the ticker sent that is still in
\* ticker.C when select picks ctx.Done() is not processed.
C19_OrderlyStop ==
  /\ cancelled ~> (pc = "exited" /\ lines = <<"STOP">> /\ ~unsynced)
  /\ [] (pc = "exited" /\ cancelled => lines = <<"STOP">> /\ ~unsynced)
  /\ [] (pc = "exited" /\ ~cancelled => startErr # "")
  /\ [][pc # "exited"]_vars

\* main returned on cancellation while a value sent by the ticker was waiting
C19_Witness ==
  /\ pc = "exited"
  /\ cancelled
  /\ lines = <<"STOP">>
  /\ tickC # <<>>

\* C20: on a tick with a successful idle read, MODE CHANGE is written exactly
\* when the mode differs from the mode of the last MODE CHANGE line (none
\* before the first sample, so the first sampled tick writes MODE CHANGE);
\* STATUS is written only when the mode is unchanged and at least
\* PrintStatusEvery has passed since the last MODE CHANGE or STATUS line; no
\* tick writes both; a tick without a sample writes neither.
C20_ModeAndStatusEvents ==
  /\ [] (lastMode = "" <=> pushed = <<>>)
  /\ [] (lastMode = "" <=> IsZero(lastStatusPrint))
  /\ [][pc = "select" /\ ticks' = ticks + 1 /\ ~idleErr'
          => LET change == Wrote("MODE CHANGE", lines')
                 status == Wrote("STATUS", lines')
             IN  /\ change <=> mode' # lastMode
                 /\ lastMode = "" => change
                 /\ status => /\ mode' = lastMode
                              /\ now'.mono - lastStatusPrint.mono >= PrintStatusEvery
                 /\ ~(change /\ status)
                 /\ lastMode' = IF change THEN mode' ELSE lastMode
                 /\ lastStatusPrint' = IF change \/ status THEN now' ELSE lastStatusPrint]_vars
  /\ [][pc = "select" /\ ticks' = ticks + 1 /\ idleErr'
          => /\ ~Wrote("MODE CHANGE", lines')
             /\ ~Wrote("STATUS", lines')
             /\ UNCHANGED <<lastMode, lastStatusPrint>>]_vars

\* a STATUS line on the third tick, PrintStatusEvery or more after the MODE
\* CHANGE of the first, the second having written neither
C20_Witness ==
  /\ ticks = 3
  /\ Wrote("STATUS", lines)
  /\ mode = lastMode
  /\ now.mono - lastStatusPrint.mono = 0
  /\ Len(pushed) = 3
  /\ pushed[3].t.mono - pushed[1].t.mono >= PrintStatusEvery
  /\ pushed[2].t.mono - pushed[1].t.mono < PrintStatusEvery

----------------------------------------------------------------------------
\* Further properties of the window tracker (Spec)

\* C21: the sample a tick pushes is active exactly when the idle duration read
\* on that tick is strictly below ActiveIfIdleLessThan (equal is inactive), and
\* the samples of the window are the latest pushed samples as they were pushed:
\* no flag changes while its sample is in the window.
C21_ActiveFlag ==
  /\ [] ( /\ Len(samples) <= Len(pushed)
          /\ \A i \in DOMAIN samples : samples[i] = pushed[Len(pushed) - Len(samples) + i] )
  /\ [][SubSeq(pushed', 1, Len(pushed)) = pushed]_vars
  /\ [][pc = "select" /\ ticks' = ticks + 1 /\ ~idleErr'
          => /\ Len(pushed') = Len(pushed) + 1
             /\ pushed'[Len(pushed')].active <=> (idleNow' < ActiveIfIdleLessThan)]_vars

\* a sample taken with idle exactly at the threshold is inactive, in a window
\* that still holds an earlier active sample
C21_Witness ==
  /\ sampled
  /\ idleNow = ActiveIfIdleLessThan
  /\ Len(samples) >= 2
  /\ samples[1].active
  /\ ~samples[Len(samples)].active

----------------------------------------------------------------------------
\* Properties of getIdleDuration (SpecIdle)

\* (a - b) mod 2^32 for uint32 values a and b, limb by limb
SubMod32(a, b) ==
  LET lo == a[1] - b[1]
      hi == a[2] - b[2] - (IF lo < 0 THEN 1 ELSE 0)
  IN  <<lo % LimbBase, hi % LimbBase>>

\* C22: for every 32-bit last and every tick count, with now its low 32 bits,
\* idleMillis is (now - last) mod 2^32 and so lies in [0, 2^32): now - last
\* when now >= last, (2^32 - last) + now when the counter has wrapped; for
\* last = 0xFFFFFFF0 and now = 0x00000010 it is 0x20.
C22_IdleWraparound ==
  pc = "return" /\ tickIn # <<>> =>
    LET now32 == <<tickIn[1].now[1], tickIn[1].now[2]>>
        last  == tickIn[1].last
    IN  /\ idleMillis[3] = 0 /\ idleMillis[4] = 0
        /\ <<idleMillis[1], idleMillis[2]>> = SubMod32(now32, last)
        /\ idleMillis[1] \in 0..(LimbBase - 1) /\ idleMillis[2] \in 0..(LimbBase - 1)
        /\ (last = <<65520, 65535>> /\ now32 = <<16, 0>>) => idleMillis = <<32, 0, 0, 0>>
        /\ last = now32 => idleMillis = <<0, 0, 0, 0>>

\* the example: last = 0xFFFFFFF0, now = 0x00000010 after a wrap, idle = 0x20
C22_Witness ==
  /\ pc = "return"
  /\ tickIn # <<>>
  /\ tickIn[1].last = <<65520, 65535>>
  /\ tickIn[1].now = <<16, 0, 1, 0>>
  /\ idleMillis = <<32, 0, 0, 0>>

----------------------------------------------------------------------------
\* End-to-end property of the window tracker (SpecScenario)

\* C23: after a tick that sampled, if every sample in the window is active,
\* activeRatio is 1 and, when idleNow is below ContinuousIdleThreshold and
\* HighProductiveRatio is at most 1, the mode is HIGH_PRODUCTIVE; so it is
\* after ten consecutive ticks with idleNow = 0.
C23_AllActiveIsHighProductive ==
  sampled /\ (\A i \in DOMAIN samples : samples[i].active) =>
    /\ samples # <<>>
    /\ activeRatio = <<Len(samples), Len(samples)>>
    /\ ( idleNow < conf.ContinuousIdleThreshold /\ RatioGE(<<1, 1>>, conf.HighProductiveRatio)
           => mode = ModeHighProductive )

\* ten ticks one second apart, every one with idleNow = 0
C23_Witness ==
  /\ conf = ScenarioCfg
  /\ ticks = 10
  /\ Len(samples) = 10
  /\ \A i \in DOMAIN samples : samples[i].active
  /\ \A i \in 1..9 : samples[i + 1].t.wall - samples[i].t.wall = SampleEvery
  /\ idleNow = 0
  /\ activeRatio = <<10, 10>>
  /\ mode = ModeHighProductive

----------------------------------------------------------------------------
\* The order of sealing and sampling, the hour boundary and the counters of
\* the hourly monitor (SpecMonitor, SpecSeal)

\* C24: on a rollover tick the bucket is sealed and handed over before the
\* tick's idle time is sampled: the sealed bucket holds the counters as the
\* earlier ticks left them (at most one sample per earlier tick), the new
\* bucket starts empty, and the tick's own sample is counted in the new
\* bucket, so that samplesInHour is 1 right after a rollover tick whose idle
\* query succeeded (0 if it failed) and the sealed record is not touched.
C24_SealBeforeSample ==
  /\ [][ Len(upserts') = Len(upserts) + 1 =>
           /\ pc = "select" /\ pc' = "poll"
           /\ upserts'[Len(upserts')].samples = samplesInHour
           /\ upserts'[Len(upserts')].idleSeconds = idleSecondsInHour
           /\ upserts'[Len(upserts')].samples <= ticks
           /\ samplesInHour' = 0
           /\ idleSecondsInHour' = 0 ]_vars
  /\ [][ (pc = "poll" /\ pc' = "cursor") => upserts' = upserts ]_vars
  /\ []( (pc = "cursor" /\ rolled) =>
           /\ samplesInHour = (IF idleErr THEN 0 ELSE 1)
           /\ idleSecondsInHour =
                (IF ~idleErr /\ idleNow >= ActiveIfIdleLessThan THEN SampleEvery ELSE 0) )

\* the second tick sealed a bucket holding the first tick's idle sample, and
\* its own idle sample is the only one of the new bucket
C24_Witness ==
  /\ pc = "cursor" /\ rolled /\ ~idleErr
  /\ ticks = 2
  /\ idleNow >= ActiveIfIdleLessThan
  /\ upserts # <<>>
  /\ upserts[Len(upserts)].samples = 1
  /\ upserts[Len(upserts)].idleSeconds = 0
  /\ samplesInHour = 1
  /\ idleSecondsInHour = SampleEvery

\* C25: hourStart is a whole hour, changes only at startup and at a seal, and
\* at a seal moves to the strictly later hour of the tick; a tick seals exactly
\* when its truncated hour is strictly later than hourStart, so a tick whose
\* time has moved back seals nothing and re-opens no hour; one tick seals at
\* most one bucket, the old hourStart, whatever number of hours it jumped over,
\* so the hours handed over are strictly increasing and all before hourStart.
C25_HourStartMonotone ==
  /\ [](hourStart.wall % Hour = 0)
  /\ [](\A i \in DOMAIN upserts :
          /\ upserts[i].hourStart < hourStart.wall
          /\ \A j \in DOMAIN upserts : i < j => upserts[i].hourStart < upserts[j].hourStart)
  /\ [][ /\ hourStart' # hourStart =>
              \/ pc = "startup"
              \/ Len(upserts') = Len(upserts) + 1
         /\ (pc = "select" /\ ticks' = ticks + 1) =>
              IF now'.wall - (now'.wall % Hour) > hourStart.wall
              THEN /\ Len(upserts') = Len(upserts) + 1
                   /\ upserts'[Len(upserts')].hourStart = hourStart.wall
                   /\ hourStart'.wall = now'.wall - (now'.wall % Hour)
                   /\ hourStart'.wall > hourStart.wall
              ELSE /\ upserts' = upserts
                   /\ hourStart' = hourStart ]_vars

\* the first tick jumped from hour 2 into hour 4: hour 2 was sealed, hour 3 was
\* not handed over; the clock was then set back and the second tick, earlier
\* than the first, sealed nothing
C25_Witness ==
  /\ ticks = 2 /\ pc = "poll" /\ ~rolled
  /\ adjustments = 1
  /\ Len(upserts) = 1
  /\ upserts[1].hourStart = 2 * Hour
  /\ hourStart.wall = 4 * Hour
  /\ now.wall < upserts[1].createdAt

\* C26: in every state of the hourly monitor idleSecondsInHour is at least 0
\* and at most samplesInHour sample intervals, and so are the counters of
\* every bucket handed over; every activityPct handed over lies in [0, 100].
C26_CountersInRange ==
  /\ 0 <= idleSecondsInHour
  /\ idleSecondsInHour <= samplesInHour * SampleEvery
  /\ \A i \in DOMAIN upserts :
       LET u == upserts[i]
       IN  /\ 0 <= u.idleSeconds
           /\ u.idleSeconds <= u.samples * SampleEvery
           /\ u.activityPct[2] > 0
           /\ 0 <= u.activityPct[1]
           /\ u.activityPct[1] <= 100 * u.activityPct[2]

\* a bucket whose every sample was idle grew by one more idle sample past an
\* hour of idle time and was then handed over with an activityPct of 0
C26_Witness ==
  /\ ticks = 2 /\ pc = "poll" /\ rolled
  /\ upserts # <<>>
  /\ upserts[Len(upserts)].idleSeconds = SecondsPerHour + SampleEvery
  /\ upserts[Len(upserts)].samples * SampleEvery = upserts[Len(upserts)].idleSeconds
  /\ upserts[Len(upserts)].activityPct[1] = 0

----------------------------------------------------------------------------
\* A failed open in the rotating log writer (SpecLogger)

\* C27: when Println reaches os.OpenFile the old handle is already closed and
\* the writer holds none; if the open fails the writer stays without a handle,
\* no file is touched, the line of that Println is written nowhere and the
\* call returns like any other; a later Println that finds the writer without
\* a handle goes to os.OpenFile again; when an open succeeds the writer holds
\* exactly one handle, on the file of the date the call read, and curDate is
\* that date.
C27_OpenFailureDropsLine ==
  [][ \A t \in Threads :
        /\ (th[t].step = "open" /\ th'[t].step = "write") =>
              /\ file = <<>> /\ logger = <<>> /\ handles = {}
              /\ IF file' = <<>>
                 THEN /\ logger' = <<>>
                      /\ handles' = {}
                      /\ files' = files
                      /\ curDate' = curDate
                 ELSE /\ file'[1].date = th[t].date
                      /\ logger' = file'
                      /\ handles' = {file'[1]}
                      /\ curDate' = <<th[t].date>>
                      /\ files'[th[t].date].exists
        /\ (th[t].step = "write" /\ th'[t].step = "unlock" /\ file = <<>>) =>
              /\ logger = <<>>
              /\ files' = files
              /\ file' = <<>> /\ handles' = {}
              /\ written' = Append(written,
                                   [n |-> th[t].line, run |-> restarts, date |-> th[t].date])
        /\ (th[t].step = "unlock" /\ th'[t].step = "idle" /\ alive') =>
              /\ th'[t] = IdleThread
              /\ UNCHANGED <<file, logger, handles, files, curDate>>
        /\ (th[t].step = "rotate" /\ th'[t].step \in {"open", "write"} /\ file = <<>>) =>
              th'[t].step = "open" ]_vars

\* the first line was dropped by a failed open, the second Println opened the
\* file of its date and wrote its line
C27_Witness ==
  /\ restarts = 0
  /\ Len(written) = 2
  /\ written[1].n = 1 /\ written[2].n = 2
  /\ \A d \in Days : \A k \in DOMAIN files[d].content : files[d].content[k].n # 1
  /\ file # <<>> /\ logger = file
  /\ curDate = <<written[2].date>>
  /\ file[1].date = written[2].date
  /\ files[written[2].date].content = <<[n |-> 2, run |-> 0]>>

----------------------------------------------------------------------------
\* The day window of GET /activity/today (SpecParse)

\* s is DD:DD with four decimal digits, an hour of 0..23 and a minute of 0..59
ValidHHMM(s) ==
  /\ Len(s) = 5
  /\ s[3] = 58
  /\ \A i \in {1, 2, 4, 5} : s[i] \in 48..57
  /\ (s[1] - 48) * 10 + (s[2] - 48) \in 0..23
  /\ (s[4] - 48) * 10 + (s[5] - 48) \in 0..59

\* C28 as stated: parseHHMM accepts only strings DD:DD of decimal digits with
\* an hour of 0..23 and a minute of 0..59, so a request whose start or end is
\* anything else is answered with status 400.
C28_Original ==
  reply # <<>> =>
    /\ parseHHMM(req[1].start).ok => ValidHHMM(req[1].start)
    /\ parseHHMM(req[1].end).ok => ValidHHMM(req[1].end)
    /\ (~ValidHHMM(req[1].start) \/ ~ValidHHMM(req[1].end)) => reply[1].status = 400

============================================================================
